---- MODULE Spec2Model ----
(***************************************************************************)
(* Repeated sealed-bid second-price auctions (khuship0104/auction_market). *)
(*                                                                         *)
(* Five parts of the program are modelled, each with its own               *)
(* specification over the shared variables:                                *)
(*   SpecAuction  core/game_logic.py and tools/payoff_calculator.py        *)
(*   SpecRound    agents/auctioneer_agent.py (AuctioneerAgent)             *)
(*   SpecBidder   agents/heuristic_bidder_agent.py,                        *)
(*                agents/strategic_bidder_agent.py, agents/base_agent.py   *)
(*   SpecSim      tools/auction_sim.py, simulator/run_llm_experiments.py   *)
(*   SpecEstimator  tools/best_response.py                                 *)
(*                                                                         *)
(* Money is an integer number of units (a float in the program; only       *)
(* finite values are modelled).  A Python dict is a sequence of            *)
(* <<key, value>> pairs with distinct keys, in insertion order.            *)
(***************************************************************************)
EXTENDS Integers, Sequences, FiniteSets, TLC

VARIABLES
    component,      \* which part of the program this behaviour exercises
    \* ---- auction resolution / payoff calculator (pure functions)
    bids,           \* argument bids   : dict bidder_id -> bid
    values,         \* argument values : dict bidder_id -> private value
    resolved,       \* result of run_second_price_auction(bids), or NotCalled
    outcome,        \* result of compute_payoffs(bids, values), or NotCalled
    \* ---- AuctioneerAgent
    round_counter,  \* self._round_counter
    bid_history,    \* self.bid_history : list of bid records
    rpc,            \* position inside run_round
    rcall,          \* locals of the running run_round call
    rcalls,         \* number of run_round calls made so far
    \* ---- bidder agents
    shading_factor, \* HeuristicBidderAgent.shading_factor, in hundredths
    use_llm,        \* the bidder's use_llm flag
    bcall,          \* the last get_bid call: its inputs and its result
    bcalls,         \* number of get_bid calls made so far
    \* ---- simulation loops
    sim,            \* locals of run_simulation / run_llm_experiments
    \* ---- best-response estimator
    global_rng,     \* state of the module-level generator of random
    est,            \* locals of the running approximate_best_response call
    est_calls       \* the finished approximate_best_response calls, in order

auctionVars == <<bids, values, resolved, outcome>>
roundVars   == <<round_counter, bid_history, rpc, rcall, rcalls>>
bidderVars  == <<shading_factor, use_llm, bcall, bcalls>>
simVars     == <<sim>>
estVars     == <<global_rng, est, est_calls>>
vars == <<component, auctionVars, roundVars, bidderVars, simVars, estVars>>

None      == "None"        \* Python None
NotCalled == [status |-> "not_called"]   \* no result yet

(***************************************************************************)
(* Python dicts as sequences of <<key, value>> pairs.                      *)
(***************************************************************************)
Keys(d) == {d[i][1] : i \in 1..Len(d)}

HasKey(d, k) == k \in Keys(d)

Get(d, k) == d[CHOOSE i \in 1..Len(d) : d[i][1] = k][2]

\* d[k] = v : overwrite in place when k is present, else append
Put(d, k, v) ==
    IF HasKey(d, k)
    THEN [i \in 1..Len(d) |-> IF d[i][1] = k THEN <<k, v>> ELSE d[i]]
    ELSE Append(d, <<k, v>>)

\* all dicts over the keys K (at most n of them) with amounts from A
RECURSIVE DictsOver(_, _, _)
DictsOver(K, A, n) ==
    IF n = 0 \/ K = {} THEN {<<>>}
    ELSE {<<>>} \cup
         UNION {{<<<<k, a>>>> \o d : d \in DictsOver(K \ {k}, A, n - 1)} :
                <<k, a>> \in K \X A}

RECURSIVE SumSeq(_)
SumSeq(s) == IF s = <<>> THEN 0 ELSE s[1] + SumSeq(Tail(s))

RECURSIVE SumOver(_, _)
SumOver(f, S) ==
    IF S = {} THEN 0
    ELSE LET x == CHOOSE y \in S : TRUE IN f[x] + SumOver(f, S \ {x})

(***************************************************************************)
(* core/game_logic.py                                                      *)
(***************************************************************************)
\* sorted(items, key=bid, reverse=True): a stable sort, so items with equal
\* bids keep their insertion order.  InsertDesc puts x behind every item
\* whose bid is >= x's bid.
RECURSIVE InsertDesc(_, _)
InsertDesc(x, s) ==
    IF s = <<>> THEN <<x>>
    ELSE IF s[1][2] >= x[2] THEN <<s[1]>> \o InsertDesc(x, Tail(s))
    ELSE <<x>> \o s

RECURSIVE SortedItems(_)
SortedItems(d) ==
    IF d = <<>> THEN <<>>
    ELSE InsertDesc(d[Len(d)], SortedItems(SubSeq(d, 1, Len(d) - 1)))

\* a plausible slip: the price taken from the top of the sorted list
run_second_price_auction_first_price(b) ==
    IF b = <<>> THEN [winner_id |-> None, price |-> 0]
    ELSE LET sorted_items == SortedItems(b)
         IN  [winner_id |-> sorted_items[1][1],
              price     |-> sorted_items[1][2]]

\* a plausible slip: reverse=True forgotten, so the lowest bid comes first
run_second_price_auction_ascending(b) ==
    IF b = <<>> THEN [winner_id |-> None, price |-> 0]
    ELSE LET desc == SortedItems(b)
             sorted_items == [i \in 1..Len(desc) |-> desc[Len(desc) + 1 - i]]
         IN  [winner_id |-> sorted_items[1][1],
              price     |-> IF Len(sorted_items) > 1 THEN sorted_items[2][2]
                            ELSE 0]

\* a plausible slip: the winner taken from the end of the sorted list
run_second_price_auction_winner_last(b) ==
    IF b = <<>> THEN [winner_id |-> None, price |-> 0]
    ELSE LET sorted_items == SortedItems(b)
         IN  [winner_id |-> sorted_items[Len(sorted_items)][1],
              price     |-> IF Len(sorted_items) > 1 THEN sorted_items[2][2]
                            ELSE 0]

\* a plausible slip: among equal top bids the one inserted last wins (the
\* sort run on the reversed items)
run_second_price_auction_last_tie(b) ==
    IF b = <<>> THEN [winner_id |-> None, price |-> 0]
    ELSE LET sorted_items == SortedItems([i \in 1..Len(b) |-> b[Len(b) + 1 - i]])
         IN  [winner_id |-> sorted_items[1][1],
              price     |-> IF Len(sorted_items) > 1 THEN sorted_items[2][2]
                            ELSE 0]

run_second_price_auction(b) ==
    IF b = <<>> THEN [winner_id |-> None, price |-> 0]
    ELSE LET sorted_items == SortedItems(b)
         IN  [winner_id |-> sorted_items[1][1],
              price     |-> IF Len(sorted_items) > 1 THEN sorted_items[2][2]
                            ELSE 0]

(***************************************************************************)
(* tools/payoff_calculator.py                                              *)
(***************************************************************************)
\* a plausible slip: the winner is charged nothing
compute_payoffs_no_price(b, v, auction_id, round_index) ==
    LET r == run_second_price_auction(b)
    IN  [auction_id     |-> auction_id,
         round_index    |-> round_index,
         winner_id      |-> r.winner_id,
         clearing_price |-> r.price,
         revenue        |-> r.price,
         bids           |-> b,
         values         |-> v,
         payoffs        |-> [i \in 1..Len(v) |-> <<v[i][1], IF v[i][1] = r.winner_id THEN v[i][2] ELSE 0>>]]

\* the loop runs over values.items(): a bidder of bids that is missing from
\* values gets no payoff entry, and nothing raises
compute_payoffs(b, v, auction_id, round_index) ==
    LET r == run_second_price_auction(b)
    IN  [auction_id     |-> auction_id,
         round_index    |-> round_index,
         winner_id      |-> r.winner_id,
         clearing_price |-> r.price,
         revenue        |-> r.price,
         bids           |-> b,
         values         |-> v,
         payoffs        |-> [i \in 1..Len(v) |->
                               <<v[i][1], IF v[i][1] = r.winner_id
                                          THEN v[i][2] - r.price ELSE 0>>]]

(***************************************************************************)
(* SpecAuction: the two pure functions applied to bounded inputs.          *)
(***************************************************************************)
BidderIds == {"A", "B", "C"}

MaxBid == 1       \* bids range over -1 .. MaxBid (negative bids flow through)

MaxValue == 1     \* private values range over 0 .. MaxValue

BidAmounts == {0 - 1} \cup (0..MaxBid)

ValueAmounts == 0..MaxValue

InitAuction ==
    /\ component = "auction"
    /\ bids \in DictsOver(BidderIds, BidAmounts, Cardinality(BidderIds))
    /\ values \in DictsOver(BidderIds, ValueAmounts, Cardinality(BidderIds))
    /\ resolved = NotCalled
    /\ outcome = NotCalled
    /\ round_counter = 0 /\ bid_history = <<>> /\ rpc = "idle"
    /\ rcall = None /\ rcalls = 0
    /\ shading_factor = 0 /\ use_llm = FALSE /\ bcall = None /\ bcalls = 0
    /\ sim = None
    /\ global_rng = 0 /\ est = None /\ est_calls = <<>>

\* winner_id, clearing_price = run_second_price_auction(bids)
Resolve ==
    /\ component = "auction"
    /\ resolved = NotCalled
    /\ resolved' = run_second_price_auction(bids)
    /\ UNCHANGED <<component, bids, values, outcome, roundVars, bidderVars, simVars, estVars>>

\* outcome = compute_payoffs(bids, values)   (default auction_id, round_index)
ComputePayoffs ==
    /\ component = "auction"
    /\ outcome = NotCalled
    /\ outcome' = compute_payoffs(bids, values, "simulated_auction", 0)
    /\ UNCHANGED <<component, bids, values, resolved, roundVars, bidderVars, simVars, estVars>>

NextAuction == Resolve \/ ComputePayoffs

SpecAuction == InitAuction /\ [][NextAuction]_vars

(***************************************************************************)
(* Claims about auction resolution and payoffs.                            *)
(***************************************************************************)
MaxOf(S) == CHOOSE x \in S : \A y \in S : x >= y

\* the second element of the bids in descending order, with multiplicity:
\* the largest bid among the entries other than one entry holding the maximum
SecondHighest(d) ==
    LET top == CHOOSE i \in 1..Len(d) : \A j \in 1..Len(d) : d[i][2] >= d[j][2]
    IN  MaxOf({d[j][2] : j \in (1..Len(d)) \ {top}})

\* C1: for a non-empty bid mapping the winner is a key of the mapping whose
\* bid is >= every bid of the mapping; the winner is None only for the empty
\* mapping.
C1_WinnerHasMaxBid ==
    resolved # NotCalled =>
        /\ (resolved.winner_id = None) <=> (bids = <<>>)
        /\ bids # <<>> =>
              /\ resolved.winner_id \in Keys(bids)
              /\ \A k \in Keys(bids) : Get(bids, resolved.winner_id) >= Get(bids, k)

\* C1 witness: three bidders, the winner's bid strictly above another bid
C1_Witness ==
    /\ resolved # NotCalled
    /\ Len(bids) = 3
    /\ resolved.winner_id \in Keys(bids)
    /\ \E k \in Keys(bids) : Get(bids, resolved.winner_id) > Get(bids, k)
    /\ bids[1][1] # resolved.winner_id

\* C2: the clearing price is the second-highest bid (with multiplicity) for
\* two or more entries and 0 for fewer; the empty mapping gives (None, 0) and
\* a single bidder wins at price 0 whatever the bid.
C2_ClearingPrice ==
    resolved # NotCalled =>
        /\ Len(bids) >= 2 => resolved.price = SecondHighest(bids)
        /\ Len(bids) < 2 => resolved.price = 0
        /\ Len(bids) = 0 => resolved = [winner_id |-> None, price |-> 0]
        /\ Len(bids) = 1 => resolved = [winner_id |-> bids[1][1], price |-> 0]

\* C2 witness: the top bid is tied among three bidders, so the price equals it
C2_Witness ==
    /\ resolved # NotCalled
    /\ Len(bids) = 3
    /\ \E i, j \in 1..3 : i # j /\ bids[i][2] = 1 /\ bids[j][2] = 1
    /\ \E k \in 1..3 : bids[k][2] < 1
    /\ resolved.price = 1

PayoffOf(o, k) == Get(o.payoffs, k)

\* C3: with identical key sets the winner's payoff is value - clearing price,
\* every other payoff is 0, the payoffs sum to the winner's payoff and
\* revenue = clearing price.
C3_Payoffs ==
    (outcome # NotCalled /\ Keys(bids) = Keys(values) /\ bids # <<>>) =>
        /\ Keys(outcome.payoffs) = Keys(bids)
        /\ PayoffOf(outcome, outcome.winner_id)
              = Get(values, outcome.winner_id) - outcome.clearing_price
        /\ \A k \in Keys(bids) \ {outcome.winner_id} : PayoffOf(outcome, k) = 0
        /\ SumSeq([i \in 1..Len(outcome.payoffs) |-> outcome.payoffs[i][2]])
              = PayoffOf(outcome, outcome.winner_id)
        /\ outcome.revenue = outcome.clearing_price
        /\ outcome.clearing_price = run_second_price_auction(bids).price

\* C3 witness: three bidders, identical key sets, a positive clearing price
\* and a winner whose payoff is negative (value below the price paid)
C3_Witness ==
    /\ outcome # NotCalled
    /\ Keys(bids) = Keys(values)
    /\ Len(bids) = 3
    /\ outcome.clearing_price = 1
    /\ PayoffOf(outcome, outcome.winner_id) = 0 - 1

Raised == [status |-> "raised"]   \* the call ended in an exception

\* C4 as claimed: compute_payoffs fails, returning no outcome, whenever some
\* bidder of bids has no entry in values.
C4_MissingValueRejected ==
    (outcome # NotCalled /\ ~(Keys(bids) \subseteq Keys(values))) =>
        outcome = Raised

\* the same bids inserted in another order
Reordered(d) ==
    {[i \in 1..Len(d) |-> d[f[i]]] :
        f \in {g \in [1..Len(d) -> 1..Len(d)] :
                 \A i, j \in 1..Len(d) : i # j => g[i] # g[j]}}

ReversedDict(d) == [i \in 1..Len(d) |-> d[Len(d) + 1 - i]]

TopBidders(d) == {d[i][1] : i \in {j \in 1..Len(d) : \A k \in 1..Len(d) : d[j][2] >= d[k][2]}}

\* C15: the winner is the first entry, in insertion order, that holds the
\* maximum bid; when two or more bidders hold it, the same bids inserted in
\* reverse order give another winner; the clearing price is the same for
\* every insertion order of the same bids.
C15_TieGoesToFirstInserted ==
    (resolved # NotCalled /\ bids # <<>>) =>
        LET first_top == CHOOSE i \in 1..Len(bids) :
                            /\ bids[i][1] \in TopBidders(bids)
                            /\ \A j \in 1..(i - 1) : bids[j][1] \notin TopBidders(bids)
        IN  /\ resolved.winner_id = bids[first_top][1]
            /\ Cardinality(TopBidders(bids)) >= 2 =>
                  run_second_price_auction(ReversedDict(bids)).winner_id
                     # resolved.winner_id
            /\ \A d \in Reordered(bids) :
                  /\ run_second_price_auction(d).price = resolved.price
                  /\ run_second_price_auction(d).winner_id \in TopBidders(bids)

\* C15 witness: the second and the third of three bidders share the maximum
\* bid; the second wins, and the third would win were the order reversed
C15_Witness ==
    /\ resolved # NotCalled
    /\ Len(bids) = 3
    /\ bids[1][2] < bids[2][2]
    /\ bids[2][2] = bids[3][2]
    /\ resolved.winner_id = bids[2][1]
    /\ run_second_price_auction(ReversedDict(bids)).winner_id = bids[3][1]
    /\ resolved.price = bids[2][2]

\* the winner's payoff is not negative when the winner bid at most their value
WinnerNotOverchargedIn(o) ==
    (/\ o.winner_id \in Keys(o.values)
     /\ Get(o.bids, o.winner_id) <= Get(o.values, o.winner_id))
    => PayoffOf(o, o.winner_id) >= 0

\* C20 as claimed: for every non-empty bid mapping the clearing price is <=
\* the winner's bid, and a winner whose bid is <= their private value has a
\* payoff >= 0.
C20_PriceAtMostWinningBid ==
    (outcome # NotCalled /\ bids # <<>>) =>
        /\ outcome.clearing_price <= Get(bids, outcome.winner_id)
        /\ WinnerNotOverchargedIn(outcome)

\* C20 amended: the clearing price is <= the winner's bid for every bid
\* mapping with two or more bidders and for a single bidder whose bid is
\* >= 0, and there a winner whose bid is <= their private value has a payoff
\* >= 0; a single bidder with a negative bid wins at the price 0.0, which is
\* above the bid.
C20_PriceAtMostWinningBidUnlessLoneNegative ==
    (outcome # NotCalled /\ bids # <<>>) =>
        /\ (Len(bids) >= 2 \/ bids[1][2] >= 0) =>
              /\ outcome.clearing_price <= Get(bids, outcome.winner_id)
              /\ WinnerNotOverchargedIn(outcome)
        /\ (Len(bids) = 1 /\ bids[1][2] < 0) =>
              /\ outcome.winner_id = bids[1][1]
              /\ outcome.clearing_price = 0
              /\ outcome.clearing_price > Get(bids, outcome.winner_id)

\* C20 witness: three bidders, one of them bidding below zero; the winner
\* bid exactly their value, 1, and pays the second price 0
C20_Witness ==
    /\ outcome # NotCalled
    /\ Len(bids) = 3
    /\ outcome.winner_id \in Keys(values)
    /\ Get(bids, outcome.winner_id) = Get(values, outcome.winner_id)
    /\ \E k \in Keys(bids) : Get(bids, k) < 0
    /\ outcome.clearing_price = 0
    /\ Get(bids, outcome.winner_id) = 1
    /\ PayoffOf(outcome, outcome.winner_id) = 1

(***************************************************************************)
(* agents/auctioneer_agent.py                                              *)
(***************************************************************************)
Absent == "<absent>"   \* a dict key that has not been set

\* sorted({entry["round"] for entry in self.bid_history})
RECURSIVE SortedRounds(_)
SortedRounds(S) ==
    IF S = {} THEN <<>>
    ELSE LET m == CHOOSE x \in S : \A y \in S : x <= y
         IN  <<m>> \o SortedRounds(S \ {m})

\* {e[key_field]: e[val_field] for e in entries}: a later entry of the same
\* agent overwrites the earlier one
RECURSIVE DictFrom(_, _)
DictFrom(entries, field) ==
    IF entries = <<>> THEN <<>>
    ELSE LET e == entries[Len(entries)]
         IN  Put(DictFrom(SubSeq(entries, 1, Len(entries) - 1), field),
                 e.agent_id, e[field])

\* round_entries[0].get("winner_id"): None while the key is not set
WinnerOf(e) == IF e.winner_id = Absent THEN None ELSE e.winner_id

RoundView(hist, r) ==
    LET IsRound(e) == e.round = r
        round_entries == SelectSeq(hist, IsRound)
    IN  [round_index   |-> r,
         bids          |-> DictFrom(round_entries, "bid"),
         secret_values |-> DictFrom(round_entries, "secret_value"),
         winner_id     |-> IF round_entries # <<>>
                           THEN WinnerOf(round_entries[1]) ELSE None]

\* exclude_round = None (the default), as an index no round has
NoRound == 0 - 1

\* a plausible slip: the exclude_round test dropped, every round is included
build_history_no_exclusion(hist, exclude_round) ==
    LET rounds_to_include == SortedRounds({hist[i].round : i \in 1..Len(hist)})
        rounds_history == [i \in 1..Len(rounds_to_include) |->
                              RoundView(hist, rounds_to_include[i])]
    IN  [rounds        |-> rounds_history,
         summary_stats |-> [num_rounds |-> Len(rounds_history)]]

\* AuctioneerAgent.build_history(exclude_round)
build_history(hist, exclude_round) ==
    LET rounds_to_include == SortedRounds({hist[i].round : i \in 1..Len(hist)})
        Kept(r) == ~(exclude_round # NoRound /\ r = exclude_round)
        kept_rounds == SelectSeq(rounds_to_include, Kept)
        rounds_history == [i \in 1..Len(kept_rounds) |->
                              RoundView(hist, kept_rounds[i])]
    IN  [rounds        |-> rounds_history,
         summary_stats |-> [num_rounds |-> Len(rounds_history)]]

\* bid_type = "Heuristic" if bidder.name.startswith("HeuristicBidder") else "Strategic"
BidType(bidder) == IF bidder.kind = "HeuristicBidder" THEN "Heuristic" ELSE "Strategic"

\* the record appended for a bidder that answered
BidRecord(current_round, bidder, bid, v) ==
    [round        |-> current_round,
     agent_id     |-> bidder.bidder_id,
     agent_type   |-> BidType(bidder),
     bid          |-> bid,
     secret_value |-> v,
     winner_id    |-> Absent]

\* for entry in self.bid_history: if entry["round"] == current_round: entry["winner_id"] = ...
Backfill(hist, current_round, winner_id) ==
    [i \in 1..Len(hist) |->
        IF hist[i].round = current_round
        THEN [hist[i] EXCEPT !.winner_id = winner_id]
        ELSE hist[i]]

\* BidRequest(auction_id=..., round_index=..., bidder_id=..., private_value=...,
\*            history=self.build_history(exclude_round=current_round)).
\* core/models.py declares no field named history: the snapshot given here is
\* the most the request can expose to the bidder.
BidRequest(auction_id, round_index, bidder_id, private_value, history) ==
    [auction_id    |-> auction_id,
     round_index   |-> round_index,
     bidder_id     |-> bidder_id,
     private_value |-> private_value,
     history       |-> history]

AuctionId == "auction_001"

\* the log_file argument of run_round: None by default, or a path
LogFiles == {None, "round_log.txt"}

\* write_round_log: open(log_file, mode) is a TypeError for log_file = None
\* and can fail with an OSError for a path
WriteRoundLogRaises(log_file, io_ok) == log_file = None \/ ~io_ok

(***************************************************************************)
(* SpecRound: sequences of run_round calls on one AuctioneerAgent.         *)
(* run_round is split at its calls into the bidders, so that the request   *)
(* handed to each bidder can be observed; a call that raises ends there    *)
(* and leaves the agent's fields as they are at that point.                *)
(***************************************************************************)
MaxCalls == 2       \* run_round calls per behaviour

MaxRoundBid == 1    \* a bidder's get_bid answers a bid in 0 .. MaxRoundBid

RoundBids == 0..MaxRoundBid

\* core/value_sampler.py is not part of the sources; uniform on [0, 1]
sample_value_uniform_0_1 == {0, 1}

Bidder(id, kind, has_get_bid) ==
    [bidder_id |-> id, kind |-> kind, has_get_bid |-> has_get_bid]

\* the bidders argument of run_round
BidderLists ==
    { <<Bidder("B1", "HeuristicBidder", TRUE), Bidder("B2", "StrategicBidder", TRUE)>>,
      <<Bidder("B1", "HeuristicBidder", TRUE), Bidder("B2", "Other", FALSE)>> }

NoRequest == [status |-> "none"]

InitRound ==
    /\ component = "round"
    /\ round_counter = 0
    /\ bid_history = <<>>
    /\ rpc = "idle"
    /\ rcalls = 0
    /\ rcall = [bidders |-> <<>>, log_file |-> None, current_round |-> 0,
                bids |-> <<>>, values |-> <<>>, bid_responses |-> <<>>,
                i |-> 1, req |-> NoRequest, payoffs_computed |-> FALSE,
                result |-> NotCalled]
    /\ bids = <<>> /\ values = <<>> /\ resolved = NotCalled /\ outcome = NotCalled
    /\ shading_factor = 0 /\ use_llm = FALSE /\ bcall = None /\ bcalls = 0
    /\ sim = None
    /\ global_rng = 0 /\ est = None /\ est_calls = <<>>

\* run_round(bidders, log_file): lines 50-55
CallRunRound ==
    /\ component = "round"
    /\ rpc = "idle"
    /\ rcalls < MaxCalls
    /\ \E bidders \in BidderLists, log_file \in LogFiles :
          rcall' = [bidders |-> bidders, log_file |-> log_file,
                    current_round |-> round_counter,
                    bids |-> <<>>, values |-> <<>>, bid_responses |-> <<>>,
                    i |-> 1, req |-> NoRequest, payoffs_computed |-> FALSE,
                    result |-> [status |-> "running"]]
    /\ rpc' = "loop"
    /\ rcalls' = rcalls + 1
    /\ UNCHANGED <<component, round_counter, bid_history, auctionVars, bidderVars, simVars, estVars>>

\* the request built for bidder i with private value v (lines 59-69)
RequestFor(bidder, v) ==
    BidRequest(AuctionId, rcall.current_round, bidder.bidder_id, v,
               build_history(bid_history, rcall.current_round))

\* one pass of the loop: the bidder answers with a bid (lines 57-91)
QueryBidderAnswers ==
    /\ component = "round"
    /\ rpc = "loop"
    /\ rcall.i <= Len(rcall.bidders)
    /\ LET bidder == rcall.bidders[rcall.i] IN
       /\ bidder.has_get_bid
       /\ \E v \in sample_value_uniform_0_1, bid \in RoundBids :
            LET req == RequestFor(bidder, v)
                bid_response == [auction_id  |-> req.auction_id,
                                 round_index |-> req.round_index,
                                 bidder_id   |-> bidder.bidder_id,
                                 bid         |-> bid]
            IN  /\ rcall' = [rcall EXCEPT
                               !.values = Put(@, bidder.bidder_id, v),
                               !.req = req,
                               !.bid_responses = Put(@, bidder.bidder_id, bid_response),
                               !.bids = Put(@, bidder.bidder_id, bid_response.bid),
                               !.i = @ + 1]
                /\ bid_history' = Append(bid_history,
                                         BidRecord(rcall.current_round, bidder,
                                                   bid_response.bid, v))
    /\ UNCHANGED <<component, round_counter, rpc, rcalls, auctionVars, bidderVars, simVars, estVars>>

\* one pass of the loop: the bidder's get_bid raises, run_round ends there
QueryBidderRaises ==
    /\ component = "round"
    /\ rpc = "loop"
    /\ rcall.i <= Len(rcall.bidders)
    /\ LET bidder == rcall.bidders[rcall.i] IN
       /\ bidder.has_get_bid
       /\ \E v \in sample_value_uniform_0_1 :
            rcall' = [rcall EXCEPT
                        !.values = Put(@, bidder.bidder_id, v),
                        !.req = RequestFor(bidder, v),
                        !.result = [status |-> "raised", stage |-> "get_bid"]]
    /\ rpc' = "idle"
    /\ UNCHANGED <<component, round_counter, bid_history, rcalls, auctionVars, bidderVars, simVars, estVars>>

\* a plausible slip: a bidder without get_bid is passed over
QueryBidderNoGetBid_skips ==
    /\ component = "round"
    /\ rpc = "loop"
    /\ rcall.i <= Len(rcall.bidders)
    /\ LET bidder == rcall.bidders[rcall.i] IN
       /\ ~bidder.has_get_bid
       /\ \E v \in sample_value_uniform_0_1 :
            rcall' = [rcall EXCEPT
                        !.values = Put(@, bidder.bidder_id, v),
                        !.req = RequestFor(bidder, v),
                        !.i = @ + 1]
    /\ UNCHANGED <<component, round_counter, bid_history, rpc, rcalls, auctionVars, bidderVars, simVars, estVars>>

\* one pass of the loop: no get_bid attribute, ValueError (lines 64, 84-85)
QueryBidderNoGetBid ==
    /\ component = "round"
    /\ rpc = "loop"
    /\ rcall.i <= Len(rcall.bidders)
    /\ LET bidder == rcall.bidders[rcall.i] IN
       /\ ~bidder.has_get_bid
       /\ \E v \in sample_value_uniform_0_1 :
            rcall' = [rcall EXCEPT
                        !.values = Put(@, bidder.bidder_id, v),
                        !.req = RequestFor(bidder, v),
                        !.result = [status |-> "raised", stage |-> "no_get_bid"]]
    /\ rpc' = "idle"
    /\ UNCHANGED <<component, round_counter, bid_history, rcalls, auctionVars, bidderVars, simVars, estVars>>

\* after the loop: payoffs, winner backfill, round summary (its failure is
\* caught), counter increment, then the log write (lines 87-108);
\* payoffs_computed records that compute_payoffs was invoked
RoundOutcome == compute_payoffs(rcall.bids, rcall.values, AuctionId, rcall.current_round)

FinishRound ==
    /\ component = "round"
    /\ rpc = "loop"
    /\ rcall.i > Len(rcall.bidders)
    /\ bid_history' = Backfill(bid_history, rcall.current_round, RoundOutcome.winner_id)
    /\ round_counter' = round_counter + 1
    /\ \E io_ok \in BOOLEAN :
          rcall' = [rcall EXCEPT !.payoffs_computed = TRUE, !.result =
                      IF WriteRoundLogRaises(rcall.log_file, io_ok)
                      THEN [status |-> "raised", stage |-> "write_round_log"]
                      ELSE [status |-> "returned", outcome |-> RoundOutcome,
                            bid_responses |-> rcall.bid_responses]]
    /\ rpc' = "idle"
    /\ UNCHANGED <<component, rcalls, auctionVars, bidderVars, simVars, estVars>>

NextRound ==
    \/ CallRunRound
    \/ QueryBidderAnswers
    \/ QueryBidderRaises
    \/ QueryBidderNoGetBid
    \/ FinishRound

SpecRound == InitRound /\ [][NextRound]_vars

(***************************************************************************)
(* Claims about the round coordinator.                                     *)
(***************************************************************************)
\* C5: the history snapshot of the request handed to a bidder in round r
\* holds only rounds with an index other than r: no bid or private value of
\* round r, not even of the bidders queried earlier in round r.
C5_SnapshotExcludesCurrentRound ==
    rcall.req # NoRequest =>
        /\ \A k \in 1..Len(rcall.req.history.rounds) :
              rcall.req.history.rounds[k].round_index # rcall.req.round_index
        /\ rcall.req.history.summary_stats.num_rounds = Len(rcall.req.history.rounds)
        /\ rcall.req.round_index = rcall.current_round

\* C5 witness: the second bidder of round 1 has been queried: round 1 already
\* has the first bidder's record, and the snapshot shows round 0 only
C5_Witness ==
    /\ rcall.req # NoRequest
    /\ rcall.req.round_index = 1
    /\ rcall.i = 3
    /\ \E k \in 1..Len(bid_history) :
          /\ bid_history[k].round = 1
          /\ bid_history[k].agent_id # rcall.req.bidder_id
    /\ Len(rcall.req.history.rounds) = 1
    /\ rcall.req.history.rounds[1].round_index = 0

\* C6 as claimed: a run_round call starts on an index strictly greater than
\* every index under which history was recorded before; the first uses 0.
C6_RoundIndexNeverReused ==
    [][(rpc = "idle" /\ rpc' = "loop") =>
          /\ (rcalls = 0 => rcall'.current_round = 0)
          /\ \A k \in 1..Len(bid_history) :
                bid_history[k].round < rcall'.current_round]_vars

\* the positions of the bidders list that hold a bidder without get_bid
NoGetBidPositions == {k \in 1..Len(rcall.bidders) : ~rcall.bidders[k].has_get_bid}

\* C12: a run_round call whose bidders include one without get_bid never
\* returns an outcome and never invokes compute_payoffs; the loop never moves
\* past that bidder, and when the call has ended it has raised.
C12_NoGetBidAbortsRound ==
    (rcall.result # NotCalled /\ NoGetBidPositions # {}) =>
        /\ rcall.result.status # "returned"
        /\ ~rcall.payoffs_computed
        /\ \A k \in NoGetBidPositions : rcall.i <= k
        /\ rpc = "idle" => rcall.result.status = "raised"

\* C12 witness: the first bidder answered, the second has no get_bid, and
\* the call ended in the ValueError with one bid collected
C12_Witness ==
    /\ rpc = "idle"
    /\ rcall.result # NotCalled
    /\ rcall.result.status = "raised"
    /\ rcall.result.stage = "no_get_bid"
    /\ Len(rcall.bids) = 1
    /\ Len(rcall.bidders) = 2
    /\ ~rcall.payoffs_computed

\* C16 as claimed (its first part): when run_round has returned the outcome
\* of round r, every History record of round r holds the bid and the private
\* value that bidder has in the outcome, and the outcome's winner.
C16_RoundRecordsMatchOutcome ==
    (rpc = "idle" /\ rcall.result # NotCalled /\ rcall.result.status = "returned") =>
        LET o == rcall.result.outcome IN
        \A k \in 1..Len(bid_history) :
            bid_history[k].round = o.round_index =>
                /\ bid_history[k].agent_id \in Keys(o.bids)
                /\ bid_history[k].bid = Get(o.bids, bid_history[k].agent_id)
                /\ bid_history[k].secret_value = Get(o.values, bid_history[k].agent_id)
                /\ bid_history[k].winner_id = o.winner_id

\* C19 as claimed: when a run_round call has raised, the round counter is
\* what it was when the call started and History holds no record under the
\* index the call ran on.
C19_AbortedRoundLeavesNoTrace ==
    (rpc = "idle" /\ rcall.result # NotCalled /\ rcall.result.status = "raised") =>
        /\ round_counter = rcall.current_round
        /\ \A k \in 1..Len(bid_history) : bid_history[k].round # rcall.current_round

(***************************************************************************)
(* tools/best_response.py                                                  *)
(*                                                                         *)
(* Money is in hundredths here.  random.Random(0) is a deterministic       *)
(* stream of draws from [0, 1); it is modelled by a full-period linear     *)
(* congruential generator over 0 .. 99 started from the seed.              *)
(***************************************************************************)
NUM_OPPONENTS == 2

SamplesPerBid == 2     \* SAMPLES_PER_BID, scaled down from 500

GridPoints == 3        \* num_grid_points, scaled down from the default 101

RngSeed == 0

RngNext(s) == (21 * s + 7) % 100

\* one Monte Carlo sample for candidate bid b from rng state s: the payoff of
\* "me" against NUM_OPPONENTS truthful opponents, and the rng state after it
RECURSIVE AddOpponents(_, _, _, _)
AddOpponents(vals, bs, s, j) ==
    IF j = NUM_OPPONENTS THEN [values |-> vals, bids |-> bs, rng |-> s]
    ELSE LET opp_id == IF j = 0 THEN "opp_0" ELSE IF j = 1 THEN "opp_1" ELSE "opp_2"
             opp_value == RngNext(s)
         IN  AddOpponents(Put(vals, opp_id, opp_value), Put(bs, opp_id, opp_value),
                          opp_value, j + 1)

SamplePayoff(private_value, b, s) ==
    LET drawn == AddOpponents(<<<<"me", private_value>>>>, <<<<"me", b>>>>, s, 0)
        o == compute_payoffs(drawn.bids, drawn.values, "simulated_auction", 0)
    IN  [payoff |-> Get(o.payoffs, "me"), rng |-> drawn.rng]

\* total_utility over the samples of one candidate bid
RECURSIVE TotalUtility(_, _, _, _)
TotalUtility(private_value, b, s, k) ==
    IF k = 0 THEN [total |-> 0, rng |-> s]
    ELSE LET one == SamplePayoff(private_value, b, s)
             rest == TotalUtility(private_value, b, one.rng, k - 1)
         IN  [total |-> one.payoff + rest.total, rng |-> rest.rng]

\* grid[i] = i / (num_grid_points - 1), in hundredths
GridBid(i, num_grid_points) == (100 * i) \div (num_grid_points - 1)

\* a plausible slip: >= for >, so the last of several equal candidates wins
GridStep_last_tie(private_value, num_grid_points, i, s, best) ==
    LET b == GridBid(i, num_grid_points)
        t == TotalUtility(private_value, b, s, SamplesPerBid)
        better == ~best.found \/ t.total >= best.utility
    IN  [rng  |-> t.rng,
         best |-> IF better
                  THEN [found |-> TRUE, best_bid |-> b, utility |-> t.total]
                  ELSE best]

\* one pass of the loop over the grid (lines 27-48), for grid[i] from rng
\* state s.  best.found is FALSE while best_utility is still -inf.
\* Utilities are kept as totals over SamplesPerBid samples (the average
\* times SamplesPerBid).
GridStep(private_value, num_grid_points, i, s, best) ==
    LET b == GridBid(i, num_grid_points)
        t == TotalUtility(private_value, b, s, SamplesPerBid)
        better == ~best.found \/ t.total > best.utility
    IN  [rng  |-> t.rng,
         best |-> IF better
                  THEN [found |-> TRUE, best_bid |-> b, utility |-> t.total]
                  ELSE best]

\* best_bid = 0.0, best_utility = float("-inf")   (lines 24-25)
NoBest == [found |-> FALSE, best_bid |-> 0, utility |-> 0]

\* the scan of the grid from index i on
RECURSIVE GridScan(_, _, _, _, _)
GridScan(private_value, num_grid_points, i, s, best) ==
    IF i = num_grid_points THEN best
    ELSE LET step == GridStep(private_value, num_grid_points, i, s, best)
         IN  GridScan(private_value, num_grid_points, i + 1, step.rng, step.best)

\* approximate_best_response(private_value, num_grid_points); "ValueError"
\* for num_grid_points < 2
approximate_best_response(private_value, num_grid_points) ==
    IF num_grid_points < 2 THEN [status |-> "raised", error |-> "ValueError"]
    ELSE LET best == GridScan(private_value, num_grid_points, 0, RngSeed, NoBest)
         IN  [status |-> "returned",
              best_bid |-> best.best_bid,
              expected_utility |-> best.utility]

(***************************************************************************)
(* SpecEstimator: sequences of approximate_best_response calls, run pass   *)
(* by pass over the grid, with other code drawing from the module-level    *)
(* generator of random between the calls.  est.rng is the generator the    *)
(* call draws from; the value a finished call leaves there stays until the *)
(* next call assigns the variable again.                                   *)
(***************************************************************************)
MaxEstimatorCalls == 3     \* approximate_best_response calls per behaviour

MaxGlobalDraws == 1        \* draws from the module-level generator per behaviour

EstimatorValues == {0, 50, 100}       \* private_value

EstimatorGrids == {1, GridPoints, GridPoints + 1}    \* num_grid_points

EstIdle == [pc |-> "idle", private_value |-> 0, num_grid_points |-> 0,
            rng |-> 0, i |-> 0, best |-> NoBest, draws |-> 0]

InitEstimator ==
    /\ component = "estimator"
    /\ global_rng = 0
    /\ est = EstIdle
    /\ est_calls = <<>>
    /\ bids = <<>> /\ values = <<>> /\ resolved = NotCalled /\ outcome = NotCalled
    /\ round_counter = 0 /\ bid_history = <<>> /\ rpc = "idle"
    /\ rcall = None /\ rcalls = 0
    /\ shading_factor = 0 /\ use_llm = FALSE /\ bcall = None /\ bcalls = 0
    /\ sim = None

EstCallRecord(private_value, num_grid_points, result) ==
    [private_value |-> private_value, num_grid_points |-> num_grid_points,
     result |-> result]

\* a plausible slip: no generator of its own, the call draws from the
\* module-level one (random.random() for rng.random())
EstCall_shared_rng ==
    /\ component = "estimator"
    /\ est.pc = "idle"
    /\ Len(est_calls) < MaxEstimatorCalls
    /\ \E private_value \in EstimatorValues, num_grid_points \in EstimatorGrids :
          IF num_grid_points < 2
          THEN /\ est' = [est EXCEPT !.rng = global_rng]
               /\ est_calls' = Append(est_calls,
                      EstCallRecord(private_value, num_grid_points,
                                    [status |-> "raised", error |-> "ValueError"]))
          ELSE /\ est' = [est EXCEPT !.pc = "scan", !.rng = global_rng,
                                     !.private_value = private_value,
                                     !.num_grid_points = num_grid_points,
                                     !.i = 0, !.best = NoBest]
               /\ est_calls' = est_calls
    /\ UNCHANGED <<component, global_rng, auctionVars, roundVars, bidderVars, simVars>>

\* approximate_best_response(private_value, num_grid_points), lines 13-25:
\* rng = random.Random(0), the ValueError for a grid of fewer than 2 points,
\* best_bid and best_utility
EstCall ==
    /\ component = "estimator"
    /\ est.pc = "idle"
    /\ Len(est_calls) < MaxEstimatorCalls
    /\ \E private_value \in EstimatorValues, num_grid_points \in EstimatorGrids :
          IF num_grid_points < 2
          THEN /\ est' = [est EXCEPT !.rng = RngSeed]
               /\ est_calls' = Append(est_calls,
                      EstCallRecord(private_value, num_grid_points,
                                    [status |-> "raised", error |-> "ValueError"]))
          ELSE /\ est' = [est EXCEPT !.pc = "scan", !.rng = RngSeed,
                                     !.private_value = private_value,
                                     !.num_grid_points = num_grid_points,
                                     !.i = 0, !.best = NoBest]
               /\ est_calls' = est_calls
    /\ UNCHANGED <<component, global_rng, auctionVars, roundVars, bidderVars, simVars>>

\* one pass of the loop over the grid (lines 27-48)
EstCandidate ==
    /\ component = "estimator"
    /\ est.pc = "scan"
    /\ est.i < est.num_grid_points
    /\ LET step == GridStep(est.private_value, est.num_grid_points, est.i,
                            est.rng, est.best)
       IN  est' = [est EXCEPT !.i = @ + 1, !.rng = step.rng, !.best = step.best]
    /\ UNCHANGED <<component, global_rng, est_calls, auctionVars, roundVars, bidderVars, simVars>>

\* return {"best_bid": ..., "expected_utility": ...}   (line 50)
EstReturn ==
    /\ component = "estimator"
    /\ est.pc = "scan"
    /\ est.i = est.num_grid_points
    /\ est_calls' = Append(est_calls,
          EstCallRecord(est.private_value, est.num_grid_points,
                        [status |-> "returned",
                         best_bid |-> est.best.best_bid,
                         expected_utility |-> est.best.utility]))
    /\ est' = [est EXCEPT !.pc = "idle"]
    /\ UNCHANGED <<component, global_rng, auctionVars, roundVars, bidderVars, simVars>>

\* other code draws from the module-level generator between two calls
\* (random.random(), rng.uniform of run_simulation without a seed)
GlobalRandomDraw ==
    /\ component = "estimator"
    /\ est.pc = "idle"
    /\ est.draws < MaxGlobalDraws
    /\ global_rng' = RngNext(global_rng)
    /\ est' = [est EXCEPT !.draws = @ + 1]
    /\ UNCHANGED <<component, est_calls, auctionVars, roundVars, bidderVars, simVars>>

NextEstimator == EstCall \/ EstCandidate \/ EstReturn \/ GlobalRandomDraw

SpecEstimator == InitEstimator /\ [][NextEstimator]_vars

(***************************************************************************)
(* Claims about the best-response estimator.                               *)
(***************************************************************************)
\* C11: any two finished approximate_best_response calls with the same
\* (private_value, num_grid_points) have the same result, whatever calls and
\* whatever draws from the module-level generator came before or between.
C11_Deterministic ==
    \A k, m \in 1..Len(est_calls) :
        (/\ est_calls[k].private_value = est_calls[m].private_value
         /\ est_calls[k].num_grid_points = est_calls[m].num_grid_points)
        => est_calls[k].result = est_calls[m].result

\* C11 witness: the first and the third call have the same arguments and
\* returned a bid, the second call had other arguments, and the module-level
\* generator was drawn from
C11_Witness ==
    /\ Len(est_calls) = 3
    /\ est_calls[1].private_value = 100 /\ est_calls[1].num_grid_points = GridPoints
    /\ est_calls[3].private_value = 100 /\ est_calls[3].num_grid_points = GridPoints
    /\ est_calls[2].private_value = 50 /\ est_calls[2].num_grid_points = GridPoints + 1
    /\ est_calls[3].result.status = "returned"
    /\ est_calls[3].result.best_bid > 0
    /\ global_rng # RngSeed
    /\ est.rng # RngSeed

\* the generator state after k draws from state s
RECURSIVE RngAfter(_, _)
RngAfter(s, k) == IF k = 0 THEN s ELSE RngAfter(RngNext(s), k - 1)

\* the summed payoff of grid[i]: every candidate before it has consumed
\* SamplesPerBid * NUM_OPPONENTS draws
CandidateTotal(private_value, num_grid_points, i) ==
    TotalUtility(private_value, GridBid(i, num_grid_points),
                 RngAfter(RngSeed, i * SamplesPerBid * NUM_OPPONENTS),
                 SamplesPerBid).total

\* C17: a returned best_bid is a bid of the grid whose summed (hence
\* averaged) payoff is >= that of every candidate and > that of every
\* earlier (lower) candidate, and expected_utility is the payoff of that bid.
\* (Stated of the call that finished last, until the next call starts: every
\* finished call was that.)
C17_FirstHighestCandidate ==
    (/\ est.pc = "idle"
     /\ est_calls # <<>>
     /\ est_calls[Len(est_calls)].result.status = "returned") =>
        LET c == est_calls[Len(est_calls)]
            grid == 0..(c.num_grid_points - 1)
            tot == [i \in grid |->
                       CandidateTotal(c.private_value, c.num_grid_points, i)]
        IN  \E i \in grid :
               /\ c.result.best_bid = GridBid(i, c.num_grid_points)
               /\ c.result.expected_utility = tot[i]
               /\ \A j \in grid : tot[j] <= tot[i]
               /\ \A j \in 0..(i - 1) : tot[j] < tot[i]

\* C17 witness: a call returned the lowest bid of the grid while a higher
\* candidate has the same (highest) summed payoff
C17_Witness ==
    \E k \in 1..Len(est_calls) :
        LET c == est_calls[k] IN
        /\ c.result.status = "returned"
        /\ c.num_grid_points = GridPoints + 1
        /\ c.result.best_bid = GridBid(0, c.num_grid_points)
        /\ CandidateTotal(c.private_value, c.num_grid_points, 1)
              = c.result.expected_utility
        /\ CandidateTotal(c.private_value, c.num_grid_points, c.num_grid_points - 1)
              < c.result.expected_utility

(***************************************************************************)
(* agents/base_agent.py, agents/heuristic_bidder_agent.py,                 *)
(* agents/strategic_bidder_agent.py                                        *)
(*                                                                         *)
(* A bid of a BidResponse is in ten-thousandths, a private value and a     *)
(* shading factor in hundredths.  The text-generation collaborator         *)
(* (call_llm) is an input: it raises, or it returns a text.                *)
(***************************************************************************)
NotUsed == [kind |-> "not_called"]

\* what call_llm does inside adjust_shading_from_history: it raises, or it
\* returns the text of a finite number, or a text float() cannot parse
AdjustReplies ==
    {[kind |-> "raises"], [kind |-> "text", parsable |-> FALSE, number |-> 0]}
    \cup {[kind |-> "text", parsable |-> TRUE, number |-> n] : n \in {50, 85, 120}}

\* JSON values of the fields read by parse_bid_response
JsonAbsent == [t |-> "absent", n |-> 0]

JsonNull == [t |-> "null", n |-> 0]

JsonText == [t |-> "str", n |-> 0]      \* a string that is not a number

JsonNum(n) == [t |-> "num", n |-> n]

JsonNumText(n) == [t |-> "numstr", n |-> n]    \* a string such as "0.25"

JsonBool(b) == [t |-> "bool", n |-> IF b THEN 1 ELSE 0]    \* true / false

\* float(bid_val) for the values float() accepts: a number, a string that
\* spells one, and a bool (float(True) = 1.0); bids are in ten-thousandths
FloatOf(bid_val) == IF bid_val.t = "bool" THEN 10000 * bid_val.n ELSE bid_val.n

\* the JSON object of a reply; bidder_id and auction_id are what the text
\* claims them to be (Absent when it names none)
LlmObject(bid, bid_amount, reasoning, bidder_id, auction_id) ==
    [kind |-> "object", bid |-> bid, bid_amount |-> bid_amount,
     reasoning |-> reasoning, bidder_id |-> bidder_id, auction_id |-> auction_id]

NoJsonText == [kind |-> "no_json"]      \* no {...} block in the text

BadJsonText == [kind |-> "bad_json"]    \* a {...} block json.loads rejects

\* what call_llm does inside get_bid
BidReplies ==
    {[kind |-> "raises", error |-> e] : e \in {"NotImplementedError", "OtherError"}}
    \cup {[kind |-> "text", text |-> t] : t \in
            {NoJsonText, BadJsonText,
             LlmObject(JsonNum(1234), JsonAbsent, "llm reasoning", "B9", "auction_999"),
             LlmObject(JsonAbsent, JsonNum(4321), None, Absent, Absent),
             LlmObject(JsonNull, JsonNum(4321), None, Absent, Absent),
             LlmObject(JsonAbsent, JsonAbsent, "llm reasoning", Absent, Absent),
             LlmObject(JsonText, JsonNum(4321), None, Absent, Absent),
             LlmObject(JsonNumText(2500), JsonAbsent, None, Absent, Absent),
             LlmObject(JsonBool(TRUE), JsonAbsent, None, Absent, Absent)}}

BidResponse(auction_id, round_index, bidder_id, bid, reasoning, raw_text) ==
    [auction_id |-> auction_id, round_index |-> round_index,
     bidder_id |-> bidder_id, bid |-> bid, reasoning |-> reasoning,
     raw_text |-> raw_text]

Returned(response) == [status |-> "returned", response |-> response]

Raises(error) == [status |-> "raised", error |-> error]

\* a plausible slip: identifiers the text names are taken from the text
parse_bid_response_trusting_text(request, raw_text) ==
    IF raw_text.kind = "no_json" THEN Raises("ValueError")
    ELSE IF raw_text.kind = "bad_json" THEN Raises("JSONDecodeError")
    ELSE LET data == raw_text
             first == data.bid
             bid_val == IF first.t \in {"absent", "null"} THEN data.bid_amount ELSE first
         IN  IF bid_val.t \in {"absent", "null"} THEN Raises("ValueError")
             ELSE IF bid_val.t \notin {"num", "numstr", "bool"} THEN Raises("ValueError")
             ELSE Returned(BidResponse(
                      IF data.auction_id = Absent THEN request.auction_id
                      ELSE data.auction_id,
                      request.round_index,
                      IF data.bidder_id = Absent THEN request.bidder_id
                      ELSE data.bidder_id,
                      FloatOf(bid_val), data.reasoning, raw_text))

\* BaseAgent._extract_json and BaseAgent.parse_bid_response
parse_bid_response(request, raw_text) ==
    IF raw_text.kind = "no_json" THEN Raises("ValueError")
    ELSE IF raw_text.kind = "bad_json" THEN Raises("JSONDecodeError")
    ELSE LET data == raw_text
             first == data.bid
             bid_val == IF first.t \in {"absent", "null"} THEN data.bid_amount ELSE first
         IN  IF bid_val.t \in {"absent", "null"} THEN Raises("ValueError")
             ELSE IF bid_val.t \notin {"num", "numstr", "bool"} THEN Raises("ValueError")
             ELSE Returned(BidResponse(request.auction_id, request.round_index,
                                       request.bidder_id, FloatOf(bid_val),
                                       data.reasoning, raw_text))

\* the history attribute of a request, as adjust_shading_from_history tests it
HistoryIsEmpty(history) ==
    \/ history.kind = "none"
    \/ history.kind = "dict" /\ (~history.has_rounds \/ Len(history.rounds) = 0)

ShadeMin == 70

ShadeMax == 95

Min2(a, b) == IF b < a THEN b ELSE a

Max2(a, b) == IF b > a THEN b ELSE a

\* a plausible slip: the clamp left out
adjust_shading_from_history_unclamped(factor, history, reply) ==
    IF HistoryIsEmpty(history) THEN factor
    ELSE IF reply.kind = "raises" THEN factor
    ELSE IF ~reply.parsable THEN factor
    ELSE reply.number

\* a plausible slip: the constructor's default, 0.8, returned where the
\* current factor should be kept
adjust_shading_from_history_resets(factor, history, reply) ==
    IF HistoryIsEmpty(history) THEN 80
    ELSE IF reply.kind = "raises" THEN 80
    ELSE IF ~reply.parsable THEN 80
    ELSE Min2(Max2(reply.number, ShadeMin), ShadeMax)

\* HeuristicBidderAgent.adjust_shading_from_history; reply is what call_llm does
adjust_shading_from_history(factor, history, reply) ==
    IF HistoryIsEmpty(history) THEN factor
    ELSE IF reply.kind = "raises" THEN factor
    ELSE IF ~reply.parsable THEN factor
    ELSE Min2(Max2(reply.number, ShadeMin), ShadeMax)

\* whether adjust_shading_from_history reaches its call_llm
AdjustCallsLlm(history) == history.kind # "no_attribute" /\ ~HistoryIsEmpty(history)

\* HeuristicBidderAgent.get_bid from line 50 on, with the factor already set
HeuristicAnswer(self_id, llm_on, factor, request, reply) ==
    LET fallback_bid == factor * request.private_value IN
    IF ~llm_on
    THEN Returned(BidResponse(request.auction_id, request.round_index, self_id,
                              fallback_bid, "Used fallback shading rule.", None))
    ELSE IF reply.kind = "raises"
    THEN IF reply.error = "NotImplementedError"
         THEN Returned(BidResponse(request.auction_id, request.round_index, self_id,
                                   fallback_bid,
                                   "LLM not configured, used fallback shading rule.",
                                   None))
         ELSE Raises(reply.error)
    ELSE parse_bid_response(request, reply.text)

\* StrategicBidderAgent.get_bid; the estimator is called with its default grid
StrategicAnswer(self_id, llm_on, request, reply) ==
    LET result == approximate_best_response(request.private_value, GridPoints)
        recommended_bid == 100 * result.best_bid
    IN
    IF ~llm_on
    THEN Returned(BidResponse(request.auction_id, request.round_index, self_id,
                              recommended_bid,
                              "Used approximate_best_response tool directly (no LLM).",
                              None))
    ELSE IF request.history.kind = "no_attribute"
    THEN Raises("AttributeError")
    ELSE IF reply.kind = "raises"
    THEN IF reply.error = "NotImplementedError"
         THEN Returned(BidResponse(request.auction_id, request.round_index, self_id,
                                   recommended_bid,
                                   "LLM not configured, used approximate_best_response tool only.",
                                   None))
         ELSE Raises(reply.error)
    ELSE parse_bid_response(request, reply.text)

(***************************************************************************)
(* SpecBidder: sequences of get_bid calls on one heuristic bidder (B1) and *)
(* one strategic bidder (B2).                                              *)
(***************************************************************************)
MaxGetBidCalls == 2     \* get_bid calls per behaviour

PrivateValues == {0, 50, 100}

History(kind, has_rounds, rounds) ==
    [kind |-> kind, has_rounds |-> has_rounds, rounds |-> rounds]

\* request.history: no such attribute (core/models.py declares none), None,
\* a dict without "rounds", a snapshot with no round, a snapshot with a round
HistoryInputs ==
    {History("no_attribute", FALSE, <<>>), History("none", FALSE, <<>>),
     History("dict", FALSE, <<>>), History("dict", TRUE, <<>>),
     History("dict", TRUE, <<0>>)}

Requests(bidder_id) ==
    {BidRequest(AuctionId, 0, bidder_id, pv, h) : pv \in PrivateValues, h \in HistoryInputs}

NoCall ==
    [agent |-> "none", request |-> NoRequest, adjust_llm |-> NotUsed,
     bid_llm |-> NotUsed, prev_factor |-> 0, result |-> NotCalled]

InitBidder ==
    /\ component = "bidder"
    /\ shading_factor \in {70, 80}
    /\ use_llm \in [{"heuristic", "strategic"} -> BOOLEAN]
    /\ bcall = NoCall
    /\ bcalls = 0
    /\ bids = <<>> /\ values = <<>> /\ resolved = NotCalled /\ outcome = NotCalled
    /\ round_counter = 0 /\ bid_history = <<>> /\ rpc = "idle"
    /\ rcall = None /\ rcalls = 0
    /\ sim = None
    /\ global_rng = 0 /\ est = None /\ est_calls = <<>>

\* HeuristicBidderAgent.get_bid(request)
HeuristicGetBid ==
    /\ component = "bidder"
    /\ bcalls < MaxGetBidCalls
    /\ \E request \in Requests("B1"),
          adjust_llm \in AdjustReplies \cup {NotUsed},
          bid_llm \in BidReplies \cup {NotUsed} :
          LET history == request.history
              new_factor == adjust_shading_from_history(shading_factor, history, adjust_llm)
          IN
          /\ (adjust_llm # NotUsed) <=> AdjustCallsLlm(history)
          /\ (bid_llm # NotUsed) <=> (history.kind # "no_attribute" /\ use_llm["heuristic"])
          /\ IF history.kind = "no_attribute"
             THEN /\ shading_factor' = shading_factor
                  /\ bcall' = [agent |-> "heuristic", request |-> request,
                               adjust_llm |-> adjust_llm, bid_llm |-> bid_llm,
                               prev_factor |-> shading_factor,
                               result |-> Raises("AttributeError")]
             ELSE /\ shading_factor' = new_factor
                  /\ bcall' = [agent |-> "heuristic", request |-> request,
                               adjust_llm |-> adjust_llm, bid_llm |-> bid_llm,
                               prev_factor |-> shading_factor,
                               result |-> HeuristicAnswer("B1", use_llm["heuristic"],
                                                          new_factor, request, bid_llm)]
    /\ bcalls' = bcalls + 1
    /\ UNCHANGED <<component, use_llm, auctionVars, roundVars, simVars, estVars>>

\* StrategicBidderAgent.get_bid(request)
StrategicGetBid ==
    /\ component = "bidder"
    /\ bcalls < MaxGetBidCalls
    /\ \E request \in Requests("B2"), bid_llm \in BidReplies \cup {NotUsed} :
          /\ (bid_llm # NotUsed) <=>
                (request.history.kind # "no_attribute" /\ use_llm["strategic"])
          /\ bcall' = [agent |-> "strategic", request |-> request,
                       adjust_llm |-> NotUsed, bid_llm |-> bid_llm,
                       prev_factor |-> shading_factor,
                       result |-> StrategicAnswer("B2", use_llm["strategic"],
                                                  request, bid_llm)]
    /\ bcalls' = bcalls + 1
    /\ UNCHANGED <<component, shading_factor, use_llm, auctionVars, roundVars, simVars, estVars>>

NextBidder == HeuristicGetBid \/ StrategicGetBid

SpecBidder == InitBidder /\ [][NextBidder]_vars

FallbackBid ==
    IF bcall.agent = "heuristic"
    THEN shading_factor * bcall.request.private_value
    ELSE 100 * approximate_best_response(bcall.request.private_value, GridPoints).best_bid

FallbackRationales ==
    {"LLM not configured, used fallback shading rule.",
     "LLM not configured, used approximate_best_response tool only."}

\* C8 as claimed: with the collaborator enabled, whenever the get_bid call of
\* the collaborator raises (any error), get_bid returns the deterministic
\* fallback bid with a rationale that records the fallback; nothing propagates.
C8_LlmFailureFallsBack ==
    (bcall.bid_llm.kind = "raises") =>
        /\ bcall.result.status = "returned"
        /\ bcall.result.response.bid = FallbackBid
        /\ bcall.result.response.reasoning \in FallbackRationales

\* C13: a BidResponse returned by get_bid carries the auction_id, the
\* round_index and the bidder_id of the request it answers (one the
\* coordinator issues: its bidder_id is the queried bidder's own), whatever
\* the collaborator's text says.
C13_ResponseIdsFromRequest ==
    (bcall.result # NotCalled /\ bcall.result.status = "returned") =>
        /\ bcall.result.response.auction_id = bcall.request.auction_id
        /\ bcall.result.response.round_index = bcall.request.round_index
        /\ bcall.result.response.bidder_id = bcall.request.bidder_id

\* C13 witness: the collaborator's text named another bidder and another
\* auction, and the response parsed from it names the request's
C13_Witness ==
    /\ bcall.result # NotCalled
    /\ bcall.result.status = "returned"
    /\ bcall.bid_llm.kind = "text"
    /\ bcall.bid_llm.text.kind = "object"
    /\ bcall.bid_llm.text.bidder_id = "B9"
    /\ bcall.bid_llm.text.auction_id = "auction_999"
    /\ bcall.result.response.bidder_id = "B1"
    /\ bcall.result.response.auction_id = AuctionId
    /\ bcall.result.response.bid = 1234

\* the field the bid is read from: bid, or bid_amount when bid is absent
\* (a null counts as absent)
ClaimedBidField(data) ==
    IF data.bid.t \in {"absent", "null"} THEN data.bid_amount ELSE data.bid

\* C14 as claimed: when get_bid hands the collaborator's text to
\* parse_bid_response, the call fails (no BidResponse, no default bid) if the
\* text has no JSON object or the bid field is absent or not a number, and
\* otherwise the response's bid is the number of bid, or of bid_amount when
\* bid is absent.
C14_ParseFailsOrTakesBid ==
    (bcall.result # NotCalled /\ bcall.bid_llm.kind = "text") =>
        LET text == bcall.bid_llm.text IN
        IF text.kind # "object" THEN bcall.result.status = "raised"
        ELSE IF ClaimedBidField(text).t \in {"num", "numstr"}
             THEN /\ bcall.result.status = "returned"
                  /\ bcall.result.response.bid = ClaimedBidField(text).n
             ELSE bcall.result.status = "raised"

\* the last get_bid call gave the adjustment nothing to go by: the request
\* has no history (no attribute, None, no "rounds", no round), or the
\* collaborator raised or returned text that is not a number
NoUsableAdjustment ==
    \/ bcall.request.history.kind = "no_attribute"
    \/ HistoryIsEmpty(bcall.request.history)
    \/ bcall.adjust_llm.kind = "raises"
    \/ (bcall.adjust_llm.kind = "text" /\ ~bcall.adjust_llm.parsable)

ShadingRuleRationales ==
    {"Used fallback shading rule.", "LLM not configured, used fallback shading rule."}

\* C18: a heuristic get_bid call with no usable adjustment leaves
\* shading_factor as it was before the call, and a bid it returns from the
\* shading rule is the previous factor times the private value.
C18_FactorKeptWithoutAdjustment ==
    (bcall.agent = "heuristic" /\ NoUsableAdjustment) =>
        /\ shading_factor = bcall.prev_factor
        /\ (/\ bcall.result.status = "returned"
            /\ bcall.result.response.reasoning \in ShadingRuleRationales) =>
              bcall.result.response.bid
                 = bcall.prev_factor * bcall.request.private_value

\* C18 witness: an earlier call had moved the factor to 0.85; in this call
\* the request has a completed round, the adjustment collaborator raised, and
\* the shading rule bid 0.85 * 1.0
C18_Witness ==
    /\ bcalls = 2
    /\ bcall.agent = "heuristic"
    /\ bcall.prev_factor = 85
    /\ shading_factor = 85
    /\ ~HistoryIsEmpty(bcall.request.history)
    /\ bcall.adjust_llm.kind = "raises"
    /\ bcall.result.status = "returned"
    /\ bcall.result.response.reasoning \in ShadingRuleRationales
    /\ bcall.result.response.bid = 8500

(***************************************************************************)
(* tools/auction_sim.py and simulator/run_llm_experiments.py               *)
(*                                                                         *)
(* Money is in tenths here.  A quotient a / b is kept exact, as the pair   *)
(* [num |-> a, den |-> b]; a / 0 is Python's ZeroDivisionError.            *)
(***************************************************************************)
Frac(n, d) == [num |-> n, den |-> d]

ZeroDivisionError == Frac(0, 0)

Div(n, d) == IF d = 0 THEN ZeroDivisionError ELSE Frac(n, d)

Zero == Frac(0, 1)     \* the literal 0.0

\* {k: x for k in d}
ConstDict(d, x) == [i \in 1..Len(d) |-> <<d[i][1], x>>]

\* {k: d[k] / n for k in d}
DivDict(d, n) == [i \in 1..Len(d) |-> <<d[i][1], Div(d[i][2], n)>>]

DictValues(d) == [i \in 1..Len(d) |-> d[i][2]]

\* d[k] += x on a dict that has k, or on a defaultdict
AddTo(d, k, x) == IF HasKey(d, k) THEN Put(d, k, Get(d, k) + x) ELSE Put(d, k, x)

RECURSIVE AddAll(_, _)
AddAll(d, items) ==
    IF items = <<>> THEN d
    ELSE AddAll(AddTo(d, items[1][1], items[1][2]), Tail(items))

\* rng.uniform(min_value, max_value) with the default range [0, 1]
SimValues == {0, 5, 10}

\* lines 51-57: "truthful", "shaded_0.8", anything else bids truthfully
StrategyBid(strategy, v) ==
    IF strategy = "shaded_0.8" THEN (8 * v) \div 10 ELSE v

\* a plausible slip: win fractions taken over the number of bidders
WinFractions_per_bidder(win_counts, num_rounds) ==
    DivDict(win_counts, Len(win_counts))

\* {bidder_id: win_counts[bidder_id] / num_rounds for ...}
WinFractions(win_counts, num_rounds) ==
    DivDict(win_counts, num_rounds)

\* a plausible slip: the num_rounds > 0 test left out
run_simulation_summary_unguarded(num_rounds, total_revenue, total_utility, win_counts) ==
    [num_rounds              |-> num_rounds,
     mean_revenue            |-> Div(total_revenue, num_rounds),
     mean_utility_per_bidder |-> DivDict(total_utility, num_rounds),
     distribution_of_winners |-> WinFractions(win_counts, num_rounds)]

\* run_simulation, lines 79-102
run_simulation_summary(num_rounds, total_revenue, total_utility, win_counts) ==
    IF num_rounds > 0
    THEN [num_rounds              |-> num_rounds,
          mean_revenue            |-> Div(total_revenue, num_rounds),
          mean_utility_per_bidder |-> DivDict(total_utility, num_rounds),
          distribution_of_winners |-> WinFractions(win_counts, num_rounds)]
    ELSE [num_rounds              |-> num_rounds,
          mean_revenue            |-> Zero,
          mean_utility_per_bidder |-> ConstDict(total_utility, Zero),
          distribution_of_winners |-> ConstDict(win_counts, Zero)]

\* run_llm_experiments, lines 68-84
run_llm_experiments_summary(num_rounds, revenues, total_utility, wins_count) ==
    [num_rounds              |-> num_rounds,
     mean_revenue            |-> IF revenues # <<>>
                                 THEN Div(SumSeq(revenues), Len(revenues))
                                 ELSE Zero,
     mean_utility_per_bidder |-> DivDict(total_utility, num_rounds),
     distribution_of_winners |-> WinFractions(wins_count, num_rounds)]

\* whether building the summary divided by zero
DividesByZero(summary) ==
    \/ summary.mean_revenue = ZeroDivisionError
    \/ \E i \in 1..Len(summary.mean_utility_per_bidder) :
          summary.mean_utility_per_bidder[i][2] = ZeroDivisionError
    \/ \E i \in 1..Len(summary.distribution_of_winners) :
          summary.distribution_of_winners[i][2] = ZeroDivisionError

(***************************************************************************)
(* SpecSim: one run of run_simulation or of run_llm_experiments.           *)
(***************************************************************************)
MaxSimRounds == 2      \* num_rounds ranges over 0 .. MaxSimRounds

\* strategy_profiles: bidder_id -> strategy name
StrategyProfiles ==
    { <<>>,
      <<<<"B1", "truthful">>>>,
      <<<<"B1", "truthful">>, <<"B2", "shaded_0.8">>>>,
      <<<<"B1", "shaded_0.8">>, <<"B2", "truthful">>, <<"B3", "random">>>> }

\* the bidders run_llm_experiments builds (lines 36-40)
LlmBidders ==
    <<Bidder("B1", "HeuristicBidder", TRUE), Bidder("B2", "StrategicBidder", TRUE),
      Bidder("B3", "HeuristicBidder", TRUE)>>

NoSummary == [status |-> "none"]

SimStartState(prog, num_rounds, profiles, num_bidders) ==
    [prog |-> prog, pc |-> "start", num_rounds |-> num_rounds,
     strategy_profiles |-> profiles, num_bidders |-> num_bidders,
     round_idx |-> 0, total_revenue |-> 0, revenue_series |-> <<>>,
     total_utility |-> <<>>, win_counts |-> <<>>,
     summary |-> NoSummary, error |-> None]

InitSim ==
    /\ component = "sim"
    /\ \E num_rounds \in 0..MaxSimRounds :
          \/ \E profiles \in StrategyProfiles, extra \in {0, 1} :
                sim = SimStartState("run_simulation", num_rounds, profiles,
                                    Len(profiles) + extra)
          \/ sim = SimStartState("run_llm_experiments", num_rounds, <<>>, 3)
    /\ bids = <<>> /\ values = <<>> /\ resolved = NotCalled /\ outcome = NotCalled
    /\ round_counter = 0 /\ bid_history = <<>> /\ rpc = "idle"
    /\ rcall = None /\ rcalls = 0
    /\ shading_factor = 0 /\ use_llm = FALSE /\ bcall = None /\ bcalls = 0
    /\ global_rng = 0 /\ est = None /\ est_calls = <<>>

\* run_simulation lines 23-36: the num_bidders assertion, the accumulators
SimStart ==
    /\ component = "sim"
    /\ sim.prog = "run_simulation"
    /\ sim.pc = "start"
    /\ sim' = IF sim.num_bidders # Len(sim.strategy_profiles)
              THEN [sim EXCEPT !.pc = "raised", !.error = "AssertionError"]
              ELSE [sim EXCEPT !.pc = "loop",
                               !.total_utility = ConstDict(sim.strategy_profiles, 0),
                               !.win_counts = ConstDict(sim.strategy_profiles, 0)]
    /\ UNCHANGED <<component, auctionVars, roundVars, bidderVars, estVars>>

\* one pass of the loop of run_simulation (lines 38-77); draw gives every
\* bidder its sampled value
SimRoundBids(profiles, vals) ==
    [i \in 1..Len(profiles) |->
        <<profiles[i][1], StrategyBid(profiles[i][2], Get(vals, profiles[i][1]))>>]

SimRound ==
    /\ component = "sim"
    /\ sim.prog = "run_simulation"
    /\ sim.pc = "loop"
    /\ sim.round_idx < sim.num_rounds
    /\ \E draw \in [1..Len(sim.strategy_profiles) -> SimValues] :
          LET vals == [i \in 1..Len(sim.strategy_profiles) |->
                          <<sim.strategy_profiles[i][1], draw[i]>>]
              bs == SimRoundBids(sim.strategy_profiles, vals)
              o == compute_payoffs(bs, vals, "sim_round", sim.round_idx)
          IN  sim' = [sim EXCEPT
                        !.total_revenue = @ + o.revenue,
                        !.revenue_series = Append(@, o.revenue),
                        !.total_utility = AddAll(@, o.payoffs),
                        !.win_counts = IF o.winner_id # None
                                       THEN AddTo(@, o.winner_id, 1) ELSE @,
                        !.round_idx = @ + 1]
    /\ UNCHANGED <<component, auctionVars, roundVars, bidderVars, estVars>>

\* run_simulation lines 79-102
SimFinish ==
    /\ component = "sim"
    /\ sim.prog = "run_simulation"
    /\ sim.pc = "loop"
    /\ sim.round_idx = sim.num_rounds
    /\ LET summary == run_simulation_summary(sim.num_rounds, sim.total_revenue,
                                             sim.total_utility, sim.win_counts)
       IN  sim' = IF DividesByZero(summary)
                  THEN [sim EXCEPT !.pc = "raised", !.error = "ZeroDivisionError"]
                  ELSE [sim EXCEPT !.pc = "done", !.summary = summary]
    /\ UNCHANGED <<component, auctionVars, roundVars, bidderVars, estVars>>

\* run_llm_experiments lines 30-50: agents and empty containers
LlmStart ==
    /\ component = "sim"
    /\ sim.prog = "run_llm_experiments"
    /\ sim.pc = "start"
    /\ sim' = [sim EXCEPT !.pc = "loop"]
    /\ UNCHANGED <<component, auctionVars, roundVars, bidderVars, estVars>>

\* one pass of the loop of run_llm_experiments (lines 52-64).  run_round is
\* called without a log_file, so it raises in write_round_log at the latest
\* and the pass never gets to its bookkeeping.
LlmRound ==
    /\ component = "sim"
    /\ sim.prog = "run_llm_experiments"
    /\ sim.pc = "loop"
    /\ sim.round_idx < sim.num_rounds
    /\ \E get_bid_ok \in BOOLEAN, io_ok \in BOOLEAN,
          vs \in [1..Len(LlmBidders) -> sample_value_uniform_0_1],
          bs \in [1..Len(LlmBidders) -> RoundBids] :
          LET vals == [i \in 1..Len(LlmBidders) |-> <<LlmBidders[i].bidder_id, vs[i]>>]
              bds == [i \in 1..Len(LlmBidders) |-> <<LlmBidders[i].bidder_id, bs[i]>>]
              o == compute_payoffs(bds, vals, AuctionId, sim.round_idx)
          IN  sim' = IF ~get_bid_ok \/ WriteRoundLogRaises(None, io_ok)
                     THEN [sim EXCEPT !.pc = "raised", !.error = "run_round"]
                     ELSE [sim EXCEPT
                             !.revenue_series = Append(@, o.clearing_price),
                             !.win_counts = AddTo(@, o.winner_id, 1),
                             !.total_utility = AddAll(@, o.payoffs),
                             !.round_idx = @ + 1]
    /\ UNCHANGED <<component, auctionVars, roundVars, bidderVars, estVars>>

\* run_llm_experiments lines 66-87: the summary, then the plotting
\* collaborator (viz/plots.py), which returns or raises
LlmFinish ==
    /\ component = "sim"
    /\ sim.prog = "run_llm_experiments"
    /\ sim.pc = "loop"
    /\ sim.round_idx = sim.num_rounds
    /\ \E plots_ok \in BOOLEAN :
          LET summary == run_llm_experiments_summary(sim.num_rounds, sim.revenue_series,
                                                     sim.total_utility, sim.win_counts)
          IN  sim' = IF DividesByZero(summary)
                     THEN [sim EXCEPT !.pc = "raised", !.error = "ZeroDivisionError"]
                     ELSE IF ~plots_ok
                     THEN [sim EXCEPT !.pc = "raised", !.error = "run_all_plots",
                                      !.summary = summary]
                     ELSE [sim EXCEPT !.pc = "done", !.summary = summary]
    /\ UNCHANGED <<component, auctionVars, roundVars, bidderVars, estVars>>

NextSim == SimStart \/ SimRound \/ SimFinish \/ LlmStart \/ LlmRound \/ LlmFinish

SpecSim == InitSim /\ [][NextSim]_vars

(***************************************************************************)
(* Claims about the simulation loops.                                      *)
(***************************************************************************)
AllZero(d) == \A i \in 1..Len(d) : d[i][2] = Zero

SimBidderCount ==
    IF sim.prog = "run_simulation" THEN Len(sim.strategy_profiles) ELSE Len(LlmBidders)

\* C10: with at least two bidders every round has exactly one winner, so the
\* win counts sum to the number of rounds played; after a run of N >= 1
\* rounds each win fraction is the bidder's win count over num_rounds and
\* the fractions sum to 1.
C10_WinFractionsSumToOne ==
    (SimBidderCount >= 2 /\ sim.pc \in {"loop", "done"}) =>
        /\ SumSeq(DictValues(sim.win_counts)) = sim.round_idx
        /\ (sim.pc = "done" /\ sim.num_rounds >= 1) =>
              LET dist == sim.summary.distribution_of_winners IN
              /\ sim.round_idx = sim.num_rounds
              /\ Keys(dist) = Keys(sim.win_counts)
              /\ \A i \in 1..Len(dist) :
                    dist[i][2] = Frac(Get(sim.win_counts, dist[i][1]), sim.num_rounds)
              /\ SumSeq([i \in 1..Len(dist) |-> dist[i][2].num]) = sim.num_rounds

\* C10 witness: a finished run of two rounds among three bidders in which
\* two different bidders won a round each
C10_Witness ==
    /\ sim.prog = "run_simulation"
    /\ sim.pc = "done"
    /\ sim.num_rounds = 2
    /\ Len(sim.strategy_profiles) = 3
    /\ \E i, j \in 1..3 :
          /\ i # j
          /\ sim.summary.distribution_of_winners[i][2] = Frac(1, 2)
          /\ sim.summary.distribution_of_winners[j][2] = Frac(1, 2)

(***************************************************************************)
(* The whole program: a behaviour exercises one of the five parts.         *)
(***************************************************************************)
Init == InitAuction \/ InitRound \/ InitBidder \/ InitSim \/ InitEstimator

Next == NextAuction \/ NextRound \/ NextBidder \/ NextSim \/ NextEstimator

Spec == Init /\ [][Next]_vars

====
